---- MODULE Spec2Model ----
(***************************************************************************)
(* Model of the Menu slider of src/src/components/Menu.jsx: the React      *)
(* state currentIndex, the navigation function goToSlide, the neighbour    *)
(* lookup getCocktailAt and the values computed by one render.             *)
(*                                                                         *)
(* JavaScript's % is the truncating remainder (the sign follows the        *)
(* dividend); it is modelled by JsRem, never by TLA+'s own %, which is the *)
(* mathematical modulo.                                                    *)
(***************************************************************************)
EXTENDS Integers, Sequences, FiniteSets, TLC

\* ------------------------------------------------------------------ bounds
\* Largest collection length explored (0 is the empty collection).
MaxN == 4
\* Largest magnitude of an index / offset argument explored.
MaxArg == 9

\* -------------------------------------------------------------- collection
\* The cocktails of constants/index.js, by name; the file is not part of the
\* sources, the scenario names A, B, C, D ... of the specification are used.
Names == <<"A", "B", "C", "D", "E", "F", "G">>

\* The JavaScript value undefined (an out-of-range or NaN array read).
Undefined == "undefined"
\* Value of a render result before the component function has run.
NotRendered == "not rendered"

VARIABLES
    allCocktails,     \* the imported collection (Menu.jsx:8)
    currentIndex,     \* React state (Menu.jsx:38)
    renderedIndex,    \* currentIndex as captured by the last render's closures
    phase,            \* "unmounted" | "mounted" | "TypeError"
    currentCocktail,  \* render result, Menu.jsx:118
    prevCocktail,     \* render result, Menu.jsx:119
    nextCocktail,     \* render result, Menu.jsx:120
    effectDeps,       \* dependency array of the last useGSAP run (<<>>: none)
    effectPending,    \* the committed render scheduled the useGSAP callback
    otherIndex,       \* currentIndex of a second Menu instance
    lastCall,         \* the request handled last: [op, arg, from]
    looked,           \* result of the last getCocktailAt lookup request
    origin,           \* currentIndex when the current run of arrow clicks began
    arrows            \* the arrow clicks of the current run, oldest first

\* State of the Hero (src/src/components/Hero.jsx) and Art
\* (src/unnamed/part_004) sections.
VARIABLES
    isMobile,         \* the media query maxWidth 767 matches now
    heroPhase,        \* "unmounted" | "rendered" | "mounted" (effect has run)
    heroIsMobile,     \* isMobile as read by Hero's last render (Hero.jsx:42)
    videoTrigger,     \* [start, end] of the video ScrollTrigger (Hero.jsx:104)
    onloadedmetadata, \* the handler of Hero.jsx:115 is assigned
    metadataLoaded,   \* the video has fired loadedmetadata
    videoTweens,      \* number of tweens on the video timeline tl
    artPhase,         \* "unmounted" | "mounted"
    artStart          \* start of the mask ScrollTrigger (part_004:50-56)

menuVars == <<allCocktails, currentIndex, renderedIndex, phase,
              currentCocktail, prevCocktail, nextCocktail, effectDeps,
              effectPending, otherIndex, lastCall, looked, origin, arrows>>

heroVars == <<isMobile, heroPhase, heroIsMobile, videoTrigger,
              onloadedmetadata, metadataLoaded, videoTweens, artPhase,
              artStart>>

vars == <<allCocktails, currentIndex, renderedIndex, phase,
          currentCocktail, prevCocktail, nextCocktail, effectDeps,
          effectPending, otherIndex, lastCall, looked, origin, arrows,
          isMobile, heroPhase, heroIsMobile, videoTrigger,
          onloadedmetadata, metadataLoaded, videoTweens, artPhase,
          artStart>>

\* A ScrollTrigger that has not been created.
NoTrigger == "none"

\* Longest run of arrow clicks that is tracked: one more than the largest
\* collection, so that a full cycle fits.
MaxRun == MaxN + 1

\* Menu.jsx:91  const totalCocktails = allCocktails.length
totalCocktails == Len(allCocktails)

\* --------------------------------------------------------- pure functions
\* JavaScript a % b for an integer a and b > 0: truncates toward zero.
JsRem(a, b) == IF a >= 0 THEN a % b ELSE -((-a) % b)

\* True mathematical modulo, the wrap function ((x % n) + n) % n of the
\* specification, for n > 0.
MathMod(x, n) == x % n

\* JavaScript arr[i] for an integer i: undefined outside 0 .. length-1.
ArrayGet(arr, i) == IF 0 <= i /\ i < Len(arr) THEN arr[i + 1] ELSE Undefined

\* Mutants of goToSlide (plausible slips in line 100).
goToSlide_NoAdd(index, n) == JsRem(index, n)
goToSlide_NoWrap(index, n) == index
goToSlide_OffByOne(index, n) == JsRem(index + n + 1, n)
goToSlide_Clamp(index, n) ==
    IF index < 0 THEN 0 ELSE IF index > n - 1 THEN n - 1 ELSE index

\* Menu.jsx:100  newIndex = (index + totalCocktails) % totalCocktails
\* Only called from handlers of a rendered component, hence with n >= 1
\* (with n = 0 the first render throws before any handler exists).
goToSlide(index, n) == JsRem(index + n, n)

\* Mutants of getCocktailAt (plausible slips in line 113).
getCocktailAt_NoAdd(ci, indexOffset, items) ==
    IF Len(items) = 0 THEN Undefined
    ELSE ArrayGet(items, JsRem(ci + indexOffset, Len(items)))

\* Menu.jsx:111-115  allCocktails[(currentIndex + indexOffset + total) % total]
\* With total = 0 the remainder is NaN and allCocktails[NaN] is undefined.
getCocktailAt(ci, indexOffset, items) ==
    IF Len(items) = 0 THEN Undefined
    ELSE ArrayGet(items, JsRem(ci + indexOffset + Len(items), Len(items)))

\* Mutant of isActive: a tab compared with a 1-based position.
isActive_OneBased(index, ci) == index + 1 = ci

\* Menu.jsx:144  const isActive = index === currentIndex
isActive(index, ci) == index = ci

\* Menu.jsx:143-159  the tabs rendered with aria-pressed = true.
activeTabs ==
    { index \in 0 .. totalCocktails - 1 : isActive(index, renderedIndex) }

\* ----------------------------------------------------------------- render
\* Mutant of DepsChanged: the hook called without usable dependencies, so
\* that every render schedules the callback.
DepsChanged_Always(prevDeps, nextDeps) == TRUE

\* Menu.jsx:86  the dependency array [currentIndex] of useGSAP: the callback
\* is scheduled when the array differs from the one of the last run (and on
\* the first render, when there is none).
DepsChanged(prevDeps, nextDeps) == prevDeps # nextDeps

\* Mutant of Render: the tab list built with an in-place reverse().
Render_Reversing(ci) ==
    /\ currentCocktail' = getCocktailAt(ci, 0, allCocktails)
    /\ prevCocktail' = getCocktailAt(ci, -1, allCocktails)
    /\ nextCocktail' = getCocktailAt(ci, 1, allCocktails)
    /\ phase' = IF Undefined \in { getCocktailAt(ci, 0, allCocktails),
                                   getCocktailAt(ci, -1, allCocktails),
                                   getCocktailAt(ci, 1, allCocktails) }
                THEN "TypeError" ELSE "mounted"
    /\ renderedIndex' = ci
    /\ effectPending' =
          /\ Undefined \notin { getCocktailAt(ci, 0, allCocktails),
                                getCocktailAt(ci, -1, allCocktails),
                                getCocktailAt(ci, 1, allCocktails) }
          /\ DepsChanged(effectDeps, <<ci>>)
    /\ allCocktails' = [ i \in 1 .. Len(allCocktails) |->
                            allCocktails[Len(allCocktails) + 1 - i] ]

\* One run of the component function with state ci (Menu.jsx:117-208): the
\* three lookups, then the JSX, which reads .name / .image of each of them
\* and so throws a TypeError when one of them is undefined.  The closures
\* of the JSX capture ci.  When the render commits, useGSAP (Menu.jsx:49-86)
\* schedules its callback if its dependency array [currentIndex] differs
\* from the one of its last run.  The collection is only read: indexed
\* (Menu.jsx:112) and mapped (Menu.jsx:143).
Render(ci) ==
    /\ currentCocktail' = getCocktailAt(ci, 0, allCocktails)
    /\ prevCocktail' = getCocktailAt(ci, -1, allCocktails)
    /\ nextCocktail' = getCocktailAt(ci, 1, allCocktails)
    /\ phase' = IF Undefined \in { getCocktailAt(ci, 0, allCocktails),
                                   getCocktailAt(ci, -1, allCocktails),
                                   getCocktailAt(ci, 1, allCocktails) }
                THEN "TypeError" ELSE "mounted"
    /\ renderedIndex' = ci
    /\ effectPending' =
          /\ Undefined \notin { getCocktailAt(ci, 0, allCocktails),
                                getCocktailAt(ci, -1, allCocktails),
                                getCocktailAt(ci, 1, allCocktails) }
          /\ DepsChanged(effectDeps, <<ci>>)
    /\ UNCHANGED allCocktails

\* Mutant of SetCurrentIndex: the state is stored but the closures of the
\* previous render stay in place (no re-render before the next event).
SetCurrentIndex_NoRender(newIndex) ==
    /\ currentIndex' = newIndex
    /\ UNCHANGED otherIndex
    /\ UNCHANGED <<currentCocktail, prevCocktail, nextCocktail, phase,
                   renderedIndex, effectPending, allCocktails>>

\* Mutant of SetCurrentIndex: the index kept in a module-level variable
\* that every instance shares.
SetCurrentIndex_Shared(newIndex) ==
    /\ currentIndex' = newIndex
    /\ otherIndex' = newIndex
    /\ Render(newIndex)

\* setCurrentIndex(newIndex) (Menu.jsx:101) followed by the re-render React
\* performs before the next event is handled.  The setter belongs to this
\* instance's useState cell (Menu.jsx:38); no other instance is written.
\* (When newIndex is the stored value React skips the re-render; rendering
\* the same state again gives the same result.)
SetCurrentIndex(newIndex) ==
    /\ currentIndex' = newIndex
    /\ UNCHANGED otherIndex
    /\ Render(newIndex)

\* The second instance's setCurrentIndex: its own useState cell.
SetOtherIndex(newIndex) ==
    /\ otherIndex' = newIndex
    /\ UNCHANGED <<allCocktails, currentIndex, renderedIndex,
                   phase, currentCocktail, prevCocktail, nextCocktail,
                   effectDeps, effectPending, looked, origin, arrows>>

\* Bookkeeping of the run of successive arrow clicks: an arrow click
\* extends the run (a full run starts anew), any other request ends it.
ArrowRun(op) ==
    IF Len(arrows) < MaxRun
    THEN arrows' = Append(arrows, op) /\ origin' = origin
    ELSE arrows' = <<op>> /\ origin' = currentIndex
ResetRun(newIndex) == arrows' = <<>> /\ origin' = newIndex

\* ------------------------------------------------------------------- Init
\* The module is loaded, the component has not rendered yet.  currentIndex
\* holds the useState argument.
Init ==
    /\ allCocktails \in { SubSeq(Names, 1, n) : n \in 0 .. MaxN }
    /\ currentIndex = 0
    /\ renderedIndex = 0
    /\ phase = "unmounted"
    /\ currentCocktail = NotRendered
    /\ prevCocktail = NotRendered
    /\ nextCocktail = NotRendered
    /\ effectDeps = <<>>
    /\ effectPending = FALSE
    /\ otherIndex = 0
    /\ lastCall = [op |-> "none", arg |-> 0, from |-> 0]
    /\ looked = NotRendered
    /\ origin = 0
    /\ arrows = <<>>
    /\ isMobile \in BOOLEAN
    /\ heroPhase = "unmounted"
    /\ heroIsMobile = FALSE
    /\ videoTrigger = [start |-> NoTrigger, end |-> NoTrigger]
    /\ onloadedmetadata = FALSE
    /\ metadataLoaded = FALSE
    /\ videoTweens = 0
    /\ artPhase = "unmounted"
    /\ artStart = NoTrigger

\* ---------------------------------------------------------------- actions
\* An event is handled only when the component is rendered and the
\* callback scheduled by the last commit has run (useGSAP runs it in the
\* commit, before the browser dispatches the next event).
Idle == phase = "mounted" /\ ~effectPending

\* Mutant of Mount: the state initialised from the supplied startIndex.
Mount_FromStartIndex(startIndex) ==
    /\ phase = "unmounted"
    /\ currentIndex' = startIndex
    /\ UNCHANGED otherIndex
    /\ Render(startIndex)
    /\ ResetRun(startIndex)
    /\ lastCall' = [op |-> "mount", arg |-> startIndex, from |-> 0]
    /\ UNCHANGED heroVars
    /\ UNCHANGED <<effectDeps, looked>>

\* First render: useState(0) (Menu.jsx:38) and the component body.  Menu is
\* declared as () => ... (Menu.jsx:33): a startIndex handed to it is not
\* read.
Mount(startIndex) ==
    /\ phase = "unmounted"
    /\ currentIndex' = 0
    /\ UNCHANGED otherIndex
    /\ Render(0)
    /\ ResetRun(0)
    /\ lastCall' = [op |-> "mount", arg |-> startIndex, from |-> 0]
    /\ UNCHANGED heroVars
    /\ UNCHANGED <<effectDeps, looked>>

\* Menu.jsx:49-86  the useGSAP callback: starts the four fromTo tweens for
\* the content now rendered; reads and writes no React state.
RunEffect ==
    /\ phase = "mounted"
    /\ effectPending
    /\ effectDeps' = <<renderedIndex>>
    /\ effectPending' = FALSE
    /\ lastCall' = [op |-> "effect", arg |-> 0, from |-> currentIndex]
    /\ UNCHANGED heroVars
    /\ UNCHANGED <<allCocktails, currentIndex, renderedIndex,
                   phase, currentCocktail, prevCocktail, nextCocktail,
                   otherIndex, looked, origin, arrows>>

\* The component function called again with the same state.
Rerender ==
    /\ Idle
    /\ Render(currentIndex)
    /\ lastCall' = [op |-> "render", arg |-> 0, from |-> currentIndex]
    /\ UNCHANGED heroVars
    /\ ResetRun(currentIndex)
    /\ UNCHANGED <<currentIndex, effectDeps, otherIndex, looked>>

\* Menu.jsx:152  onClick={() => goToSlide(index)} of tab number index.
TabClick(index) ==
    /\ Idle
    /\ index \in 0 .. totalCocktails - 1
    /\ SetCurrentIndex(goToSlide(index, totalCocktails))
    /\ ResetRun(goToSlide(index, totalCocktails))
    /\ lastCall' = [op |-> "tab", arg |-> index, from |-> currentIndex]
    /\ UNCHANGED heroVars
    /\ UNCHANGED <<effectDeps, looked>>

\* Menu.jsx:168  onClick={() => goToSlide(currentIndex - 1)}; currentIndex
\* is the value the closure captured at the last render.
PrevClick ==
    /\ Idle
    /\ SetCurrentIndex(goToSlide(renderedIndex - 1, totalCocktails))
    /\ ArrowRun("prev")
    /\ lastCall' = [op |-> "prev", arg |-> -1, from |-> currentIndex]
    /\ UNCHANGED heroVars
    /\ UNCHANGED <<effectDeps, looked>>

\* Menu.jsx:177  onClick={() => goToSlide(currentIndex + 1)}; currentIndex
\* is the value the closure captured at the last render.
NextClick ==
    /\ Idle
    /\ SetCurrentIndex(goToSlide(renderedIndex + 1, totalCocktails))
    /\ ArrowRun("next")
    /\ lastCall' = [op |-> "next", arg |-> 1, from |-> currentIndex]
    /\ UNCHANGED heroVars
    /\ UNCHANGED <<effectDeps, looked>>

\* goToSlide(index) called with an arbitrary integer, as its documentation
\* allows ("can be negative or beyond array length", Menu.jsx:97).
GoTo(index) ==
    /\ Idle
    /\ SetCurrentIndex(goToSlide(index, totalCocktails))
    /\ ResetRun(goToSlide(index, totalCocktails))
    /\ lastCall' = [op |-> "goTo", arg |-> index, from |-> currentIndex]
    /\ UNCHANGED heroVars
    /\ UNCHANGED <<effectDeps, looked>>

\* step(offset): goToSlide(currentIndex + offset), the arrows' call shape
\* (Menu.jsx:168, 177) with an arbitrary integer offset.
Step(offset) ==
    /\ Idle
    /\ SetCurrentIndex(goToSlide(currentIndex + offset, totalCocktails))
    /\ ResetRun(goToSlide(currentIndex + offset, totalCocktails))
    /\ lastCall' = [op |-> "step", arg |-> offset, from |-> currentIndex]
    /\ UNCHANGED heroVars
    /\ UNCHANGED <<effectDeps, looked>>

\* Mutant of ItemAt: the lookup also moves the slider to the looked-up slot.
ItemAt_Moves(indexOffset) ==
    /\ Idle
    /\ looked' = getCocktailAt(currentIndex, indexOffset, allCocktails)
    /\ currentIndex' = goToSlide(currentIndex + indexOffset, totalCocktails)
    /\ lastCall' = [op |-> "itemAt", arg |-> indexOffset, from |-> currentIndex]
    /\ UNCHANGED heroVars
    /\ UNCHANGED <<allCocktails, renderedIndex, phase,
                   currentCocktail, prevCocktail, nextCocktail, effectDeps,
                   effectPending, otherIndex>>
    /\ ResetRun(currentIndex)

\* itemAt(offset): one getCocktailAt(indexOffset) lookup; a pure read.
ItemAt(indexOffset) ==
    /\ Idle
    /\ looked' = getCocktailAt(currentIndex, indexOffset, allCocktails)
    /\ lastCall' = [op |-> "itemAt", arg |-> indexOffset, from |-> currentIndex]
    /\ UNCHANGED heroVars
    /\ UNCHANGED <<allCocktails, currentIndex, renderedIndex,
                   phase, currentCocktail, prevCocktail, nextCocktail,
                   effectDeps, effectPending, otherIndex>>
    /\ ResetRun(currentIndex)

\* A tab click on the second Menu instance (its own Menu.jsx:152).
OtherTabClick(index) ==
    /\ Idle
    /\ index \in 0 .. totalCocktails - 1
    /\ SetOtherIndex(goToSlide(index, totalCocktails))
    /\ lastCall' = [op |-> "other", arg |-> index, from |-> otherIndex]
    /\ UNCHANGED heroVars

\* An arrow click on the second Menu instance (its own Menu.jsx:168, 177);
\* offset is -1 for previous and 1 for next.
OtherArrowClick(offset) ==
    /\ Idle
    /\ offset \in {-1, 1}
    /\ SetOtherIndex(goToSlide(otherIndex + offset, totalCocktails))
    /\ lastCall' = [op |-> "other", arg |-> offset, from |-> otherIndex]
    /\ UNCHANGED heroVars

Next ==
    \/ \E startIndex \in -MaxArg .. MaxArg : Mount(startIndex)
    \/ RunEffect
    \/ Rerender
    \/ \E index \in 0 .. MaxN - 1 : TabClick(index)
    \/ PrevClick
    \/ NextClick
    \/ \E index \in -MaxArg .. MaxArg : GoTo(index)
    \/ \E offset \in -MaxArg .. MaxArg : Step(offset)
    \/ \E indexOffset \in -MaxArg .. MaxArg : ItemAt(indexOffset)

Spec == Init /\ [][Next]_vars

\* Only the events the rendered Menu can produce: tab and arrow clicks,
\* with the render and the effect run they cause.
NextUI ==
    \/ \E startIndex \in -MaxArg .. MaxArg : Mount(startIndex)
    \/ RunEffect
    \/ \E index \in 0 .. MaxN - 1 : TabClick(index)
    \/ PrevClick
    \/ NextClick

SpecUI == Init /\ [][NextUI]_vars

\* useGSAP runs its callback in the commit that scheduled it, so a pending
\* callback always runs.
SpecUIFair == SpecUI /\ WF_vars(RunEffect)

\* Two Menu instances on the page, each receiving its own clicks in any
\* order.
NextPair ==
    \/ NextUI
    \/ \E index \in 0 .. MaxN - 1 : OtherTabClick(index)
    \/ \E offset \in {-1, 1} : OtherArrowClick(offset)

SpecPair == Init /\ [][NextPair]_vars

\* ------------------------------------------------------- Hero and Art
\* Hero.jsx:100-101  startValue / endValue for a given isMobile.
HeroTrigger(mobile) ==
    IF mobile THEN [start |-> "top 50%", end |-> "120% top"]
    ELSE [start |-> "center 60%", end |-> "bottom top"]

\* part_004:50  const start = isMobile ? 'top 20%' : 'top top'
ArtStartValue(mobile) == IF mobile THEN "top 20%" ELSE "top top"

\* Mutant of CanDispatch: the handler registered in an effect that runs in
\* a later task, so that an event may be dispatched in between.
CanDispatch_Anytime == TRUE

\* Browser events (loadedmetadata, a media query change) are dispatched as
\* tasks of their own.  React renders and commits the mount and runs the
\* layout effect of useGSAP (Hero.jsx:53) within one task, so no event is
\* dispatched between Hero's render and its effect.
CanDispatch == heroPhase # "rendered"

\* Hero.jsx:42, 122-178  the first render of Hero: reads isMobile and
\* creates the <video> element with its src, which starts loading.
HeroRender ==
    /\ heroPhase = "unmounted"
    /\ heroPhase' = "rendered"
    /\ heroIsMobile' = isMobile
    /\ UNCHANGED <<isMobile, videoTrigger, onloadedmetadata, metadataLoaded,
                   videoTweens, artPhase, artStart>>
    /\ UNCHANGED menuVars

\* Hero.jsx:53-121  the useGSAP callback, run once ([] dependencies): the
\* video timeline with the trigger values of the isMobile of this render,
\* then the assignment of onloadedmetadata.
HeroEffect ==
    /\ heroPhase = "rendered"
    /\ heroPhase' = "mounted"
    /\ videoTrigger' = HeroTrigger(heroIsMobile)
    /\ onloadedmetadata' = TRUE
    /\ UNCHANGED <<isMobile, heroIsMobile, metadataLoaded, videoTweens,
                   artPhase, artStart>>
    /\ UNCHANGED menuVars

\* The video fires loadedmetadata (once for its one src, Hero.jsx:175); the
\* handler of Hero.jsx:115-120, if assigned, adds the currentTime tween.
LoadedMetadata ==
    /\ heroPhase # "unmounted"
    /\ CanDispatch
    /\ ~metadataLoaded
    /\ metadataLoaded' = TRUE
    /\ videoTweens' = IF onloadedmetadata THEN videoTweens + 1
                      ELSE videoTweens
    /\ UNCHANGED <<isMobile, heroPhase, heroIsMobile, videoTrigger,
                   onloadedmetadata, artPhase, artStart>>
    /\ UNCHANGED menuVars

\* part_004:36-84  the mount of Art: its render reads isMobile and its
\* useGSAP callback creates the mask timeline with that start.
ArtMount ==
    /\ artPhase = "unmounted"
    /\ artPhase' = "mounted"
    /\ artStart' = ArtStartValue(isMobile)
    /\ UNCHANGED <<isMobile, heroPhase, heroIsMobile, videoTrigger,
                   onloadedmetadata, metadataLoaded, videoTweens>>
    /\ UNCHANGED menuVars

\* The viewport crosses 767px: useMediaQuery (Hero.jsx:42, part_004:36)
\* returns the new value and the mounted components render again.  Neither
\* useGSAP callback is run again: Hero passes [] (Hero.jsx:121) and Art
\* passes no dependencies (part_004:84), which useGSAP takes as [].
MediaChange ==
    /\ CanDispatch
    /\ isMobile' = ~isMobile
    /\ heroIsMobile' = IF heroPhase = "mounted" THEN ~isMobile
                       ELSE heroIsMobile
    /\ UNCHANGED <<heroPhase, videoTrigger, onloadedmetadata, metadataLoaded,
                   videoTweens, artPhase, artStart>>
    /\ UNCHANGED menuVars

NextHero ==
    \/ HeroRender
    \/ HeroEffect
    \/ LoadedMetadata
    \/ ArtMount
    \/ MediaChange

SpecHero == Init /\ [][NextHero]_vars

\* A state of the navigator is valid when the index is in range.
ValidFrom == 0 <= lastCall.from /\ lastCall.from < totalCocktails

\* Current state of the navigator is valid.
ValidNow == 0 <= currentIndex /\ currentIndex < totalCocktails

\* Largest multiple of the collection length added to a target in C8.
MaxK == 2

\* ----------------------------------------------------------------- claims
\* C1: for a collection of size N >= 1, after any sequence of goTo / step
\* calls with arbitrary integer arguments, 0 <= currentIndex < N.
C1_RangeInvariant ==
    (phase # "unmounted" /\ totalCocktails >= 1)
        => (0 <= currentIndex /\ currentIndex < totalCocktails)

\* C2: goTo(index) sets currentIndex to the true mathematical modulo of
\* index by N, for every integer index; the result is never negative.
C2_GoToTrueModulo ==
    lastCall.op = "goTo"
        => (currentIndex = MathMod(lastCall.arg, totalCocktails)
            /\ currentIndex >= 0)

\* C3: from currentIndex = 0, step(-1) (the previous arrow) yields N-1.
C3_BackwardWrap ==
    ((lastCall.op = "prev" \/ (lastCall.op = "step" /\ lastCall.arg = -1))
      /\ lastCall.from = 0)
        => currentIndex = totalCocktails - 1

C3_Witness ==
    /\ lastCall.op = "prev"
    /\ lastCall.from = 0
    /\ totalCocktails = 4
    /\ currentIndex = 3
    /\ currentCocktail = "D"

\* C4: from currentIndex = N-1, step(+1) (the next arrow) yields 0.
C4_ForwardWrap ==
    ((lastCall.op = "next" \/ (lastCall.op = "step" /\ lastCall.arg = 1))
      /\ lastCall.from = totalCocktails - 1)
        => currentIndex = 0

C4_Witness ==
    /\ lastCall.op = "next"
    /\ lastCall.from = 3
    /\ totalCocktails = 4
    /\ currentIndex = 0
    /\ currentCocktail = "A"

\* C5: in a valid state itemAt(offset) returns the collection member at the
\* true modulo of currentIndex + offset by N, for every integer offset.
C5_ItemAtTotal ==
    (lastCall.op = "itemAt" /\ ValidFrom)
        => /\ looked # Undefined
           /\ looked = allCocktails[
                  MathMod(lastCall.from + lastCall.arg, totalCocktails) + 1]

\* C6: in a valid state itemAt(0) is items[currentIndex], and the item
\* previewed at offset o is the item that is current after step(o).
C6_ItemAtConsistency ==
    /\ (phase = "mounted" /\ ValidNow)
          => getCocktailAt(currentIndex, 0, allCocktails)
                = ArrayGet(allCocktails, currentIndex)
    /\ (lastCall.op = "step" /\ ValidFrom)
          => currentCocktail
                = getCocktailAt(lastCall.from, lastCall.arg, allCocktails)

\* C7: with an empty collection initialization fails with
\* EmptyCollectionError, and nothing is ever rendered from an undefined item.
C7_EmptyFailsClosed ==
    totalCocktails = 0
        => /\ phase \in {"unmounted", "EmptyCollectionError"}
           /\ Undefined \notin {currentCocktail, prevCocktail, nextCocktail}

\* C8: goTo(k*N + i) and goTo(i) give the same currentIndex for every
\* integer k and i.
C8_ModuloCongruence ==
    lastCall.op = "goTo"
        => \A k \in -MaxK .. MaxK :
              goToSlide(lastCall.arg + k * totalCocktails, totalCocktails)
                 = currentIndex

\* C9: in a valid state goTo(currentIndex) leaves the state unchanged
\* (clicking the active tab changes nothing).
C9_IdempotentReentry ==
    ((lastCall.op = "goTo" \/ lastCall.op = "tab")
      /\ lastCall.arg = lastCall.from /\ ValidFrom)
        => /\ currentIndex = lastCall.from
           /\ phase = "mounted"
           /\ currentCocktail = allCocktails[lastCall.from + 1]

C9_Witness ==
    /\ lastCall.op = "tab"
    /\ lastCall.arg = 2
    /\ lastCall.from = 2
    /\ totalCocktails = 4
    /\ currentIndex = 2

\* C10: after initialization with a non-empty collection currentIndex is 0,
\* the current item is items[0], the previous preview items[N-1] and the
\* next preview items[1 mod N].
C10_InitialState ==
    (lastCall.op = "mount" /\ totalCocktails >= 1)
        => /\ currentIndex = 0
           /\ phase = "mounted"
           /\ currentCocktail = allCocktails[1]
           /\ prevCocktail = allCocktails[totalCocktails]
           /\ nextCocktail = allCocktails[MathMod(1, totalCocktails) + 1]

C10_Witness ==
    /\ lastCall.op = "mount"
    /\ allCocktails = <<"A", "B", "C", "D">>
    /\ currentIndex = 0
    /\ currentCocktail = "A"
    /\ prevCocktail = "D"
    /\ nextCocktail = "B"

\* The run of arrow clicks began in a valid state.
ValidOrigin == 0 <= origin /\ origin < totalCocktails

\* Net displacement of the current run: next clicks minus previous clicks.
RunShift ==
    Cardinality({ i \in 1 .. Len(arrows) : arrows[i] = "next" })
      - Cardinality({ i \in 1 .. Len(arrows) : arrows[i] = "prev" })

\* The requests that navigate.
NavOps == {"tab", "prev", "next", "goTo", "step"}

\* C11: currentIndex is changed only by explicit navigation requests; an
\* itemAt lookup, a re-render and the animation effect leave it unchanged.
C11_OnlyNavigationMoves ==
    [][ /\ (currentIndex' # currentIndex) => (lastCall'.op \in NavOps)
        /\ (lastCall'.op \in {"itemAt", "render", "effect"})
              => (currentIndex' = currentIndex) ]_vars

C11_Witness ==
    /\ lastCall.op = "itemAt"
    /\ lastCall.arg = 1
    /\ lastCall.from = 2
    /\ currentIndex = 2
    /\ looked = "D"

\* C12: requests are handled one at a time against the index in force: a
\* run of successive arrow clicks begun at a valid index i ends at
\* (i + nexts - previouses) mod N, and no handler ever holds a stale index.
C12_ClicksNotLost ==
    /\ (phase = "mounted" /\ ValidOrigin)
          => currentIndex = MathMod(origin + RunShift, totalCocktails)
    /\ phase = "mounted" => renderedIndex = currentIndex

C12_Witness ==
    /\ arrows = <<"next", "next", "next">>
    /\ origin = 2
    /\ totalCocktails = 4
    /\ currentIndex = 1

\* C13: no request changes the collection's contents, length or order.
C13_CollectionReadOnly == [][allCocktails' = allCocktails]_vars

C13_Witness ==
    /\ allCocktails = <<"A", "B", "C", "D">>
    /\ lastCall.op = "step"
    /\ lastCall.arg = 6
    /\ currentIndex = 2
    /\ nextCocktail = "D"

\* C14 (as stated): a supplied startIndex is stored wrapped, so the initial
\* currentIndex is the true modulo of startIndex by N.
C14_StartIndexNormalized ==
    (lastCall.op = "mount" /\ totalCocktails >= 1)
        => currentIndex = MathMod(lastCall.arg, totalCocktails)

\* C14 (amended): the component reads no startIndex; whatever integer is
\* supplied, the initial currentIndex is 0, which is in [0, N).
C14_StartIndexIgnored ==
    (lastCall.op = "mount" /\ totalCocktails >= 1)
        => (currentIndex = 0 /\ ValidNow /\ renderedIndex = 0)

C14_Witness ==
    /\ lastCall.op = "mount"
    /\ lastCall.arg = 5
    /\ totalCocktails = 4
    /\ currentIndex = 0

\* C15: two instances are independent: a request on one leaves the other's
\* currentIndex (and rendered content) unchanged, in every interleaving.
C15_InstancesIndependent ==
    [][ /\ (lastCall'.op = "other")
              => /\ currentIndex' = currentIndex
                 /\ renderedIndex' = renderedIndex
                 /\ currentCocktail' = currentCocktail
        /\ (lastCall'.op # "other") => (otherIndex' = otherIndex) ]_vars

C15_Witness ==
    /\ totalCocktails = 4
    /\ otherIndex = 3
    /\ currentIndex = 1
    /\ lastCall.op = "next"
    /\ lastCall.from = 0

\* C16: under tab and arrow clicks only, from currentIndex = 0 with N >= 1,
\* every state has 0 <= currentIndex < N and the current, previous and next
\* cocktails are members of the collection.
C16_UiStatesValid ==
    (phase # "unmounted" /\ totalCocktails >= 1)
        => /\ phase = "mounted"
           /\ ValidNow
           /\ \A c \in {currentCocktail, prevCocktail, nextCocktail} :
                 \E i \in 1 .. totalCocktails : allCocktails[i] = c

C16_Witness ==
    /\ totalCocktails = 3
    /\ lastCall.op = "prev"
    /\ lastCall.from = 0
    /\ currentIndex = 2
    /\ prevCocktail = "B"
    /\ nextCocktail = "A"

\* C17: the single-add wrap of goToSlide equals the true modulo for every
\* index >= -N, and getCocktailAt's index equals the true modulo whenever
\* currentIndex + offset >= -N.
C17_SingleAddWrap ==
    /\ (lastCall.op = "goTo" /\ lastCall.arg >= -totalCocktails)
          => currentIndex = MathMod(lastCall.arg, totalCocktails)
    /\ (lastCall.op = "itemAt"
          /\ lastCall.from + lastCall.arg >= -totalCocktails)
          => looked = allCocktails[
                 MathMod(lastCall.from + lastCall.arg, totalCocktails) + 1]

C17_Witness ==
    /\ lastCall.op = "goTo"
    /\ lastCall.arg = -4
    /\ lastCall.from = 2
    /\ totalCocktails = 4
    /\ currentIndex = 0

\* C18: in every state the rendered Menu can reach exactly one tab is
\* marked active, the one whose position is currentIndex.
C18_OneActiveTab ==
    phase = "mounted"
        => (activeTabs = {currentIndex} /\ Cardinality(activeTabs) = 1
            /\ ValidNow)

C18_Witness ==
    /\ totalCocktails = 4
    /\ lastCall.op = "tab"
    /\ lastCall.from = 0
    /\ activeTabs = {2}

\* C19: clicking tab j sets currentIndex to j whatever the previous index,
\* and the content displayed afterwards is that of items[j].
C19_TabSelects ==
    lastCall.op = "tab"
        => /\ currentIndex = lastCall.arg
           /\ phase = "mounted"
           /\ currentCocktail = allCocktails[lastCall.arg + 1]

C19_Witness ==
    /\ lastCall.op = "tab"
    /\ lastCall.arg = 3
    /\ lastCall.from = 1
    /\ currentCocktail = "D"

\* C20: from a valid state, next then previous (and previous then next)
\* restores currentIndex, and N consecutive next (or previous) clicks
\* return to it.
C20_ArrowsCycle ==
    ValidOrigin
        => /\ (arrows = <<"next", "prev">> \/ arrows = <<"prev", "next">>)
                 => currentIndex = origin
           /\ (Len(arrows) = totalCocktails
                 /\ \A i \in 1 .. Len(arrows) : arrows[i] = arrows[1])
                 => currentIndex = origin

C20_Witness ==
    /\ arrows = <<"next", "next", "next", "next">>
    /\ totalCocktails = 4
    /\ origin = 1
    /\ currentIndex = 1

\* currentIndex after k clicks on the next arrow, starting from ci
\* (Menu.jsx:177 applied k times).
RECURSIVE NextTimes(_, _, _)
NextTimes(ci, k, n) ==
    IF k = 0 THEN ci ELSE goToSlide(NextTimes(ci, k - 1, n) + 1, n)

\* C21: from any valid state every index j in 0 .. N-1 is reached by at
\* most N-1 clicks on next, and no state is terminal: both arrows stay
\* enabled (once the effect scheduled by the last commit has run).
C21_AllReachableNoTerminal ==
    (phase = "mounted" /\ ValidNow)
        => /\ \A j \in 0 .. totalCocktails - 1 :
                 \E k \in 0 .. totalCocktails - 1 :
                    NextTimes(currentIndex, k, totalCocktails) = j
           /\ effectPending => ENABLED RunEffect
           /\ ~effectPending => (ENABLED PrevClick /\ ENABLED NextClick)
           /\ (arrows # <<>> /\ ValidOrigin
                 /\ \A i \in 1 .. Len(arrows) : arrows[i] = "next")
                 => currentIndex
                      = NextTimes(origin, Len(arrows), totalCocktails)

C21_Witness ==
    /\ arrows = <<"next", "next", "next">>
    /\ totalCocktails = 4
    /\ origin = 1
    /\ currentIndex = 0
    /\ ~effectPending

\* C23: with N = 1 every goTo / step request (tab or arrow click) leaves
\* currentIndex = 0, and current, previous and next are the single item.
C23_SingleItem ==
    (totalCocktails = 1 /\ phase # "unmounted")
        => /\ currentIndex = 0
           /\ phase = "mounted"
           /\ currentCocktail = allCocktails[1]
           /\ prevCocktail = allCocktails[1]
           /\ nextCocktail = allCocktails[1]

C23_Witness ==
    /\ totalCocktails = 1
    /\ lastCall.op = "prev"
    /\ currentIndex = 0
    /\ prevCocktail = "A"
    /\ nextCocktail = "A"

\* C22: the animation effect runs once on mount and thereafter exactly once
\* per change of currentIndex: a mount and every navigation that changes
\* currentIndex schedule one run, which then happens; a navigation that
\* targets the current index schedules none; the effect runs only when
\* scheduled.
C22_EffectPerChange ==
    /\ [][ /\ (lastCall'.op = "mount" /\ phase' = "mounted") => effectPending'
           /\ (lastCall'.op \in NavOps)
                 => (effectPending' <=> (currentIndex' # currentIndex))
           /\ (lastCall'.op = "effect")
                 => /\ effectPending
                    /\ ~effectPending'
                    /\ effectDeps' = <<currentIndex>>
           /\ (effectDeps' # effectDeps) => (lastCall'.op = "effect")
           /\ effectPending => (lastCall'.op = "effect") ]_vars
    /\ (effectPending ~> ~effectPending)

C22_Witness ==
    /\ lastCall.op = "tab"
    /\ lastCall.arg = 2
    /\ lastCall.from = 2
    /\ currentIndex = 2
    /\ effectDeps = <<2>>
    /\ ~effectPending

C25_TriggersFollowIsMobile ==
    /\ heroPhase = "mounted" => videoTrigger = HeroTrigger(isMobile)
    /\ artPhase = "mounted" => artStart = ArtStartValue(isMobile)

====
